---- MODULE Spec2Model ----
(***************************************************************************)
(* FinSage Risk Scoring Service (finsage-risk-score/app.py).               *)
(*                                                                         *)
(* One HTTP operation, POST /score: the framework validates the JSON body  *)
(* against the Features model, then score() computes the heuristic risk    *)
(* score and returns the response dictionary.  FastAPI runs a plain `def`  *)
(* handler on a thread pool, so several calls of score() may be in flight  *)
(* at once; each call is modelled as a worker with its own call frame.     *)
(*                                                                         *)
(* Python floats are modelled as exact rationals <<n, d>> in lowest terms  *)
(* with d > 0, so that rounding half-way cases and the [0, 1] boundaries   *)
(* are decided exactly.                                                    *)
(***************************************************************************)
EXTENDS Integers, FiniteSets, Sequences, TLC

VARIABLES pc, body, features, base_risk, jitter, score_value, response

vars == <<pc, body, features, base_risk, jitter, score_value, response>>

----------------------------------------------------------------------------
(* Exact rational arithmetic standing for Python float arithmetic.         *)

RECURSIVE Gcd(_, _)
Gcd(a, b) ==
    IF b = 0 THEN a ELSE Gcd(b, a % b)

IAbs(n) ==
    IF n < 0 THEN -n ELSE n

Rat(n, d) ==
    LET s == IF d < 0 THEN -1 ELSE 1
        g == Gcd(IAbs(n), IAbs(d))
    IN  <<(s * n) \div g, (s * d) \div g>>

Zero == Rat(0, 1)

One == Rat(1, 1)

RAdd(x, y) ==
    Rat(x[1] * y[2] + y[1] * x[2], x[2] * y[2])

RSub(x, y) ==
    Rat(x[1] * y[2] - y[1] * x[2], x[2] * y[2])

RMul(x, y) ==
    Rat(x[1] * y[1], x[2] * y[2])

RDiv(x, y) ==
    Rat(x[1] * y[2], x[2] * y[1])

RLess(x, y) ==
    x[1] * y[2] < y[1] * x[2]

RLeq(x, y) ==
    x[1] * y[2] <= y[1] * x[2]

\* abs(x)
RAbs(x) ==
    <<IAbs(x[1]), x[2]>>

\* Python's min(a, b): b when b < a, otherwise a (the first argument wins ties).
PyMin(a, b) ==
    IF RLess(b, a) THEN b ELSE a

\* Python's max(a, b): b when b > a, otherwise a.
PyMax(a, b) ==
    IF RLess(a, b) THEN b ELSE a

RECURSIVE Pow10(_)
Pow10(k) ==
    IF k = 0 THEN 1 ELSE 10 * Pow10(k - 1)

\* Python's round(x, ndigits): the nearest multiple of 10^-ndigits, a half-way
\* case going to the even multiple.
PyRound(x, ndigits) ==
    LET p == Pow10(ndigits)
        m == x[1] * p
        q == m \div x[2]
        r == m % x[2]
        up == \/ 2 * r > x[2]
              \/ (2 * r = x[2] /\ q % 2 = 1)
    IN  Rat(IF up THEN q + 1 ELSE q, p)

----------------------------------------------------------------------------
(* JSON values of a request body.  Every value has the same three fields   *)
(* so that values of different JSON types can be compared.                 *)

Absent == [t |-> "absent", s |-> "", n |-> Zero]

Null == [t |-> "null", s |-> "", n |-> Zero]

Num(n, d) == [t |-> "number", s |-> "", n |-> Rat(n, d)]

Str(s) == [t |-> "string", s |-> s, n |-> Zero]

\* The decimal numerals among the strings the model sends, with their values:
\* float("80") = 80.0, float("abc") raises.
NumeralValue == [s \in {"80"} |-> Rat(80, 1)]

NumericFields == {"rsi", "pe", "peg", "sentiment", "atr"}

\* Faulty variant of Default: the defaults of pe and peg exchanged.
DefaultPeAndPegExchanged(field) ==
    CASE field = "rsi" -> Rat(50, 1)
      [] field = "pe" -> Rat(1, 1)
      [] field = "peg" -> Rat(20, 1)
      [] field = "sentiment" -> Rat(0, 1)
      [] field = "atr" -> Rat(1, 1)

\* Features: the declared default of an optional field.
Default(field) ==
    CASE field = "rsi" -> Rat(50, 1)
      [] field = "pe" -> Rat(20, 1)
      [] field = "peg" -> Rat(1, 1)
      [] field = "sentiment" -> Rat(0, 1)
      [] field = "atr" -> Rat(1, 1)

\* Faulty variant of ParseStr: surrounding blanks stripped from the string.
ParseStrStripped(v) ==
    [ok |-> v.t = "string", val |-> IF v.s = " aapl " THEN "aapl" ELSE v.s]

\* Validation of a value against `str`: a JSON string is taken as it is.
ParseStr(v) ==
    [ok |-> v.t = "string", val |-> v.s]

\* Validation of a value against `float` (lax mode): a JSON number, or a string
\* holding a numeral; null and any other string are rejected.
ParseFloat(v) ==
    CASE v.t = "number" -> [ok |-> TRUE, val |-> v.n]
      [] v.t = "string" /\ v.s \in DOMAIN NumeralValue ->
            [ok |-> TRUE, val |-> NumeralValue[v.s]]
      [] OTHER -> [ok |-> FALSE, val |-> Zero]

\* Faulty variant of TickerField: ticker declared with a default of "".
TickerFieldOptional(b) ==
    IF b.ticker.t = "absent" THEN [ok |-> TRUE, val |-> ""] ELSE ParseStr(b.ticker)

\* ticker: str (required, no default).
TickerField(b) ==
    IF b.ticker.t = "absent" THEN [ok |-> FALSE, val |-> ""] ELSE ParseStr(b.ticker)

\* <field>: float = <default>.
FloatField(b, field) ==
    IF b[field].t = "absent"
    THEN [ok |-> TRUE, val |-> Default(field)]
    ELSE ParseFloat(b[field])

\* Features(**body): the validated model, or a validation error.
Features(b) ==
    LET tk == TickerField(b)
        fl == [f \in NumericFields |-> FloatField(b, f)]
    IN  [ok |-> tk.ok /\ \A f \in NumericFields : fl[f].ok,
         model |-> [ticker |-> tk.val, rsi |-> fl["rsi"].val, pe |-> fl["pe"].val,
                    peg |-> fl["peg"].val, sentiment |-> fl["sentiment"].val,
                    atr |-> fl["atr"].val]]

----------------------------------------------------------------------------
(* score(features), term by term.                                          *)

\* Faulty variant of rsi_term: the abs() left out.
rsi_term_signed(f) ==
    RDiv(RSub(f.rsi, Rat(50, 1)), Rat(50, 1))

rsi_term(f) ==
    RDiv(RAbs(RSub(f.rsi, Rat(50, 1))), Rat(50, 1))

\* Faulty variant of pe_term: peg read in place of pe.
pe_term_from_peg(f) ==
    RDiv(f.peg, Rat(100, 1))

pe_term(f) ==
    RDiv(f.pe, Rat(100, 1))

sentiment_term(f) ==
    RSub(One, RDiv(RAdd(f.sentiment, One), Rat(2, 1)))

BaseRisk(f) ==
    PyMin(One, RDiv(RAdd(RAdd(rsi_term(f), pe_term(f)), sentiment_term(f)), Rat(3, 1)))

\* random.uniform(a, b) = a + (b - a) * random(), for the draw u of random().
uniform(a, b, u) ==
    RAdd(a, RMul(RSub(b, a), u))

\* Faulty variants of ScoreValue: the max(0, .) left out; both min and max left
\* out; rounding to 4 digits.
ScoreValueNoFloor(b, j) ==
    PyRound(PyMin(One, RAdd(b, j)), 3)

ScoreValueUnclamped(b, j) ==
    PyRound(RAdd(b, j), 3)

ScoreValueFourDigits(b, j) ==
    PyRound(PyMin(One, PyMax(Zero, RAdd(b, j))), 4)

\* round(min(1, max(0, base_risk + jitter)), 3)
ScoreValue(b, j) ==
    PyRound(PyMin(One, PyMax(Zero, RAdd(b, j))), 3)

\* Faulty variant of randint: the upper end one too high.
randint_past_end(a, b) ==
    a .. (b + 1)

\* random.randint(a, b): an integer N with a <= N <= b.
randint(a, b) ==
    a .. b

ModelVersion == "v0.1"

ResponseKeys == {"ticker", "risk_score", "timestamp", "latency_ms", "model_version"}

\* The dictionary score() returns, sent with status 200.
ScoreResult(f, sv, t, l) ==
    [status |-> 200, keys |-> ResponseKeys, ticker |-> f.ticker, risk_score |-> sv,
     timestamp |-> t, latency_ms |-> l, model_version |-> ModelVersion]

\* Neither a rational nor a value a call can compute: a local not yet assigned.
Unset == <<0, 0>>

\* The framework's answer to a body that fails validation: score() is not called.
ValidationError ==
    [status |-> 422, keys |-> {"detail"}, ticker |-> "", risk_score |-> Unset,
     timestamp |-> 0, latency_ms |-> 0, model_version |-> ""]

NoResponse ==
    [status |-> 0, keys |-> {}, ticker |-> "", risk_score |-> Unset,
     timestamp |-> 0, latency_ms |-> 0, model_version |-> ""]

NoBody ==
    [ticker |-> Absent, rsi |-> Absent, pe |-> Absent, peg |-> Absent,
     sentiment |-> Absent, atr |-> Absent]

NoFeatures ==
    [ticker |-> "", rsi |-> Unset, pe |-> Unset, peg |-> Unset,
     sentiment |-> Unset, atr |-> Unset]

----------------------------------------------------------------------------
(* The requests and the random draws the model explores.                   *)

\* random() is drawn from the grid 0, 1/JitterGrid, ..., 1; the end point stands
\* for a + (b - a) * random() rounding up to b.
JitterGrid == 6

JitterDraws ==
    {uniform(Rat(-5, 100), Rat(5, 100), Rat(k, JitterGrid)) : k \in 0 .. JitterGrid}

LatencyDraws == randint(10, 30)

\* time.time() at the moment the response dictionary is built.
ClockReads == {1700000000, 1700000001}

\* Bodies of the sequential specification: missing and ill-typed fields, values
\* outside the expected ranges, a numeral sent as a string, a half-way case of
\* the rounding (pe = 20.05), tickers with blanks, lower case and no characters.
Bodies ==
    [ticker : {Absent, Null, Str("AAPL"), Str(" aapl "), Str("")},
     rsi : {Absent, Num(100, 1), Num(45, 1), Str("80"), Str("abc")},
     pe : {Absent, Num(0, 1), Num(100, 1), Num(-50, 1), Num(401, 20)},
     peg : {Absent, Num(5, 2)},
     sentiment : {Absent, Num(1, 1), Num(-1, 1), Num(3, 1)},
     atr : {Absent, Null}]

\* Bodies of the concurrent specification: every optional field either omitted
\* or sent with its default ...
DefaultedBodies ==
    {[ticker |-> Str("AAPL"), rsi |-> r, pe |-> p, peg |-> g, sentiment |-> s, atr |-> a] :
        r \in {Absent, Num(50, 1)}, p \in {Absent, Num(20, 1)}, g \in {Absent, Num(1, 1)},
        s \in {Absent, Num(0, 1)}, a \in {Absent, Num(1, 1)}}

\* ... requests that differ in peg and atr alone ...
DeadFieldBodies ==
    {[ticker |-> Str("AAPL"), rsi |-> Num(80, 1), pe |-> Absent, peg |-> g,
      sentiment |-> Num(-1, 5), atr |-> a] :
        g \in {Absent, Num(5, 2)}, a \in {Absent, Num(26, 5)}}

\* ... and the empty object {}, which has no ticker.
ConcBodies == DefaultedBodies \cup DeadFieldBodies \cup {NoBody}

ConcJitterDraws ==
    {uniform(Rat(-5, 100), Rat(5, 100), u) : u \in {Zero, One}}

ConcLatencyDraws == randint(10, 30) \cap {10, 30}

ConcClockReads == {1700000000}

Workers == {1, 2}

----------------------------------------------------------------------------
(* State: one call per worker.  pc is the call's position, body the JSON   *)
(* body received, features the validated model, base_risk, jitter and      *)
(* score_value the locals of score(), response what is sent back.          *)

\* Faulty variant of Bind: the name is a module global, seen by every call.
BindGlobal(store, w, x) ==
    [v \in DOMAIN store |-> x]

\* Assignment to a name of worker w's own call.
Bind(store, w, x) ==
    [store EXCEPT ![w] = x]

Init ==
    /\ pc = [w \in Workers |-> "idle"]
    /\ body = [w \in Workers |-> NoBody]
    /\ features = [w \in Workers |-> NoFeatures]
    /\ base_risk = [w \in Workers |-> Unset]
    /\ jitter = [w \in Workers |-> Unset]
    /\ score_value = [w \in Workers |-> Unset]
    /\ response = [w \in Workers |-> NoResponse]

\* A POST /score request arrives at worker w.
Receive(w, bodies) ==
    /\ pc[w] = "idle"
    /\ \E b \in bodies : body' = Bind(body, w, b)
    /\ pc' = Bind(pc, w, "received")
    /\ UNCHANGED <<features, base_risk, jitter, score_value, response>>

\* The framework builds Features from the body; on failure it answers 422 and
\* score() is never entered.
Validate(w) ==
    /\ pc[w] = "received"
    /\ LET r == Features(body[w])
       IN  IF r.ok
           THEN /\ features' = Bind(features, w, r.model)
                /\ pc' = Bind(pc, w, "validated")
                /\ UNCHANGED response
           ELSE /\ response' = Bind(response, w, ValidationError)
                /\ pc' = Bind(pc, w, "done")
                /\ UNCHANGED features
    /\ UNCHANGED <<body, base_risk, jitter, score_value>>

\* rsi_term, pe_term, sentiment_term, base_risk
ComputeBase(w) ==
    /\ pc[w] = "validated"
    /\ base_risk' = Bind(base_risk, w, BaseRisk(features[w]))
    /\ pc' = Bind(pc, w, "base")
    /\ UNCHANGED <<body, features, jitter, score_value, response>>

\* jitter = random.uniform(-0.05, 0.05)
DrawJitter(w, draws) ==
    /\ pc[w] = "base"
    /\ \E j \in draws : jitter' = Bind(jitter, w, j)
    /\ pc' = Bind(pc, w, "jitter")
    /\ UNCHANGED <<body, features, base_risk, score_value, response>>

\* score_value = round(min(1, max(0, base_risk + jitter)), 3)
ComputeScore(w) ==
    /\ pc[w] = "jitter"
    /\ score_value' = Bind(score_value, w, ScoreValue(base_risk[w], jitter[w]))
    /\ pc' = Bind(pc, w, "scored")
    /\ UNCHANGED <<body, features, base_risk, jitter, response>>

\* return {...}: the clock is read and the latency drawn while the dictionary is built.
Respond(w, clock, latencies) ==
    /\ pc[w] = "scored"
    /\ \E t \in clock, l \in latencies :
          response' = Bind(response, w, ScoreResult(features[w], score_value[w], t, l))
    /\ pc' = Bind(pc, w, "done")
    /\ UNCHANGED <<body, features, base_risk, jitter, score_value>>

\* The response is sent; the request, the model and the frame are discarded.
Send(w) ==
    /\ pc[w] = "done"
    /\ pc' = Bind(pc, w, "idle")
    /\ body' = Bind(body, w, NoBody)
    /\ features' = Bind(features, w, NoFeatures)
    /\ base_risk' = Bind(base_risk, w, Unset)
    /\ jitter' = Bind(jitter, w, Unset)
    /\ score_value' = Bind(score_value, w, Unset)
    /\ response' = Bind(response, w, NoResponse)

\* One worker serving requests one after another, over the full set of bodies.
Next ==
    \E w \in {1} :
        \/ Receive(w, Bodies)
        \/ Validate(w)
        \/ ComputeBase(w)
        \/ DrawJitter(w, JitterDraws)
        \/ ComputeScore(w)
        \/ Respond(w, ClockReads, LatencyDraws)
        \/ Send(w)

Spec == Init /\ [][Next]_vars

\* Every worker serving requests, interleaved statement by statement.
NextConc ==
    \E w \in Workers :
        \/ Receive(w, ConcBodies)
        \/ Validate(w)
        \/ ComputeBase(w)
        \/ DrawJitter(w, ConcJitterDraws)
        \/ ComputeScore(w)
        \/ Respond(w, ConcClockReads, ConcLatencyDraws)
        \/ Send(w)

SpecConc == Init /\ [][NextConc]_vars

----------------------------------------------------------------------------
(* Properties of a call, checked under Spec.                               *)

\* A call that ended in a success response.
Succeeded(w) ==
    pc[w] = "done" /\ response[w].status = 200

\* base_risk + jitter of worker w's call.
Perturbed(w) ==
    RAdd(base_risk[w], jitter[w])

\* C1: every risk_score returned lies in [0, 1], whatever the accepted rsi, pe and
\* sentiment (in or out of their expected ranges) and whatever the jitter.
C1_RiskScoreInUnitInterval ==
    \A w \in Workers :
        Succeeded(w) =>
            /\ RLeq(Zero, response[w].risk_score)
            /\ RLeq(response[w].risk_score, One)

\* A negative pe and a sentiment above 1 drive base_risk + jitter below 0, and the
\* response carries 0.
C1_Witness ==
    \E w \in Workers :
        /\ Succeeded(w)
        /\ RLess(features[w].pe, Zero)
        /\ RLess(One, features[w].sentiment)
        /\ RLess(Perturbed(w), Zero)
        /\ response[w].risk_score = Zero

\* The formula of the specification, written with the mathematical min and clamp.
MathMin(x, y) ==
    IF RLeq(x, y) THEN x ELSE y

Clamp(x, lo, hi) ==
    IF RLess(x, lo) THEN lo ELSE IF RLess(hi, x) THEN hi ELSE x

FormulaBaseRisk(rsi, pe, sentiment) ==
    MathMin(One,
            RDiv(RAdd(RAdd(RDiv(RAbs(RSub(rsi, Rat(50, 1))), Rat(50, 1)),
                           RDiv(pe, Rat(100, 1))),
                      RSub(One, RDiv(RAdd(sentiment, One), Rat(2, 1)))),
                 Rat(3, 1)))

\* r is x rounded to 3 decimals: a multiple of 1/1000 at most 1/2000 away from x,
\* the even multiple when x is half-way between two.
IsRounded3(r, x) ==
    LET k == (r[1] * 1000) \div r[2]
        dist == RAbs(RSub(x, r))
    IN  /\ (r[1] * 1000) % r[2] = 0
        /\ RLeq(dist, Rat(1, 2000))
        /\ dist = Rat(1, 2000) => k % 2 = 0

\* C2: the risk_score returned is round(clamp(base_risk + jitter, 0, 1), 3) with
\* base_risk = min(1, (|rsi - 50| / 50 + pe / 100 + (1 - (sentiment + 1) / 2)) / 3),
\* a function of rsi, pe, sentiment and the jitter alone; rsi = 50, pe = 0,
\* sentiment = 1 gives base_risk = 0.
C2_ScoreFollowsFormula ==
    \A w \in Workers :
        /\ pc[w] \in {"base", "jitter", "scored"} \/ Succeeded(w) =>
              /\ base_risk[w] =
                    FormulaBaseRisk(features[w].rsi, features[w].pe, features[w].sentiment)
              /\ (/\ features[w].rsi = Rat(50, 1)
                  /\ features[w].pe = Zero
                  /\ features[w].sentiment = One) => base_risk[w] = Zero
        /\ Succeeded(w) =>
              IsRounded3(response[w].risk_score,
                         Clamp(RAdd(FormulaBaseRisk(features[w].rsi, features[w].pe,
                                                    features[w].sentiment),
                                    jitter[w]),
                               Zero, One))

\* rsi = 50, pe = 0, sentiment = 1: base_risk is 0, and with the jitter 0.05 the
\* response carries 0.05.
C2_Witness ==
    \E w \in Workers :
        /\ Succeeded(w)
        /\ features[w].rsi = Rat(50, 1)
        /\ features[w].pe = Zero
        /\ features[w].sentiment = One
        /\ base_risk[w] = Zero
        /\ jitter[w] = Rat(5, 100)
        /\ response[w].risk_score = Rat(50, 1000)

\* A body the specification calls invalid: no ticker, or a field present that
\* does not parse as its declared type (a ticker that is no string; a numeric
\* field that is null or a string holding no numeral).
Numerals == {"80"}

Malformed(b) ==
    \/ b.ticker.t # "string"
    \/ \E f \in NumericFields :
          \/ b[f].t = "null"
          \/ b[f].t = "string" /\ b[f].s \notin Numerals

\* C3: a body without ticker, or with a field that fails to parse, ends in a 422
\* response without risk_score, and no statement of score() runs for it.
C3_InvalidBodyRejected ==
    \A w \in Workers :
        (pc[w] \notin {"idle", "received"} /\ Malformed(body[w])) =>
            /\ pc[w] = "done"
            /\ response[w].status = 422
            /\ "risk_score" \notin response[w].keys
            /\ features[w] = NoFeatures
            /\ base_risk[w] = Unset
            /\ jitter[w] = Unset
            /\ score_value[w] = Unset

\* A body whose only fault is the missing ticker has been answered with 422.
C3_Witness ==
    \E w \in Workers :
        /\ pc[w] = "done"
        /\ body[w].ticker = Absent
        /\ \A f \in NumericFields : body[w][f].t \in {"absent", "number"}
        /\ response[w].status = 422
        /\ score_value[w] = Unset

\* C7: the ticker of a success response is the ticker string of its request,
\* character for character.
C7_TickerEchoed ==
    \A w \in Workers :
        Succeeded(w) =>
            /\ body[w].ticker.t = "string"
            /\ response[w].ticker = body[w].ticker.s

\* A ticker in lower case with blanks around it comes back as it was sent.
C7_Witness ==
    \E w \in Workers :
        /\ Succeeded(w)
        /\ body[w].ticker = Str(" aapl ")
        /\ response[w].ticker = " aapl "

\* C8: latency_ms of a success response is an integer in 10 .. 30, and every one
\* of these values can be returned whatever the features of the request are.
C8_LatencyInRange ==
    \A w \in Workers :
        /\ Succeeded(w) =>
              /\ response[w].latency_ms \in Int
              /\ 10 <= response[w].latency_ms
              /\ response[w].latency_ms <= 30
        /\ pc[w] = "scored" =>
              \A l \in 10 .. 30 : ENABLED Respond(w, ClockReads, LatencyDraws \cap {l})

\* Both ends of the range are returned: here 30, for a request with features
\* away from the defaults.
C8_Witness ==
    \E w \in Workers :
        /\ Succeeded(w)
        /\ response[w].latency_ms = 30
        /\ features[w].rsi = Rat(100, 1)
        /\ features[w].pe = Rat(-50, 1)

\* C9: the risk_score returned is an integer multiple of 0.001.
C9_ThreeDecimals ==
    \A w \in Workers :
        Succeeded(w) =>
            (response[w].risk_score[1] * 1000) % response[w].risk_score[2] = 0

\* The all-default request with the lowest jitter: 0.18333... is returned as 0.183.
C9_Witness ==
    \E w \in Workers :
        /\ Succeeded(w)
        /\ Perturbed(w) = Rat(11, 60)
        /\ response[w].risk_score = Rat(183, 1000)

\* round(clamp(x, 0, 1), 3), the order of the service, and clamp(round(x, 3), 0, 1).
ClampThenRound(x) ==
    PyRound(PyMin(One, PyMax(Zero, x)), 3)

RoundThenClamp(x) ==
    PyMin(One, PyMax(Zero, PyRound(x, 3)))

\* Every value of base_risk + jitter the sequential specification can produce.
PerturbedValues ==
    {RAdd(BaseRisk(Features(b).model), j) :
        b \in {bb \in Bodies : Features(bb).ok}, j \in JitterDraws}

\* base_risk + jitter of the calls that have drawn their jitter.
InFlightValues ==
    {Perturbed(w) : w \in {v \in Workers : pc[v] \in {"jitter", "scored"} \/ Succeeded(v)}}

\* C10 as stated: some base_risk + jitter, among those of the calls in flight and
\* all those a call can produce, is scored differently by the two orders.
C10_OrderObservable ==
    \E x \in InFlightValues \cup PerturbedValues : ClampThenRound(x) # RoundThenClamp(x)

\* C10, amended: the two orders agree on every base_risk + jitter; the score the
\* service computes is also clamp(round(base_risk + jitter, 3), 0, 1).
C10_OrderNotObservable ==
    \A w \in Workers :
        (pc[w] = "scored" \/ Succeeded(w)) =>
            score_value[w] = RoundThenClamp(Perturbed(w))

\* base_risk + jitter rounds to a value above 1, which only the clamp brings back to 1.
C10_Witness ==
    \E w \in Workers :
        /\ Succeeded(w)
        /\ RLess(One, PyRound(Perturbed(w), 3))
        /\ response[w].risk_score = One

----------------------------------------------------------------------------
(* Properties of two calls, checked under SpecConc.                        *)

\* The defaults as documented.
DocumentedDefault ==
    [rsi |-> Rat(50, 1), pe |-> Rat(20, 1), peg |-> Rat(1, 1),
     sentiment |-> Rat(0, 1), atr |-> Rat(1, 1)]

SameUpToDefaults(a, b) ==
    /\ a.ticker = b.ticker
    /\ \A f \in NumericFields :
          \/ a[f] = b[f]
          \/ a[f] = Absent /\ b[f].t = "number" /\ b[f].n = DocumentedDefault[f]
          \/ b[f] = Absent /\ a[f].t = "number" /\ a[f].n = DocumentedDefault[f]

TickerOnly(b) ==
    \A f \in NumericFields : b[f] = Absent

\* C4: an optional field omitted from the body takes its documented default
\* (rsi 50, pe 20, peg 1.0, sentiment 0.0, atr 1.0); a body with ticker alone has
\* base_risk 7/30 = 0.2333...; two requests that differ only in that one omits a
\* field the other sends with its default get, for the same draws, the same response.
C4_DefaultsApplied ==
    /\ \A w \in Workers :
          (pc[w] \in {"validated", "base", "jitter", "scored"} \/ Succeeded(w)) =>
              /\ \A f \in NumericFields :
                    body[w][f] = Absent => features[w][f] = DocumentedDefault[f]
              /\ (TickerOnly(body[w]) /\ pc[w] # "validated") => base_risk[w] = Rat(7, 30)
    /\ \A w, v \in Workers :
          (/\ Succeeded(w)
           /\ Succeeded(v)
           /\ SameUpToDefaults(body[w], body[v])
           /\ jitter[w] = jitter[v]
           /\ response[w].latency_ms = response[v].latency_ms
           /\ response[w].timestamp = response[v].timestamp) =>
              response[w] = response[v]

\* One request with ticker alone, one sending all five defaults, same draws: both
\* have base_risk 7/30 and the same response.
C4_Witness ==
    \E w, v \in Workers :
        /\ Succeeded(w)
        /\ Succeeded(v)
        /\ TickerOnly(body[w])
        /\ \A f \in NumericFields : body[v][f].t = "number"
        /\ SameUpToDefaults(body[w], body[v])
        /\ jitter[w] = jitter[v]
        /\ base_risk[w] = Rat(7, 30)
        /\ response[w] = response[v]

\* What belongs to worker w's call.
Call(w) ==
    <<pc[w], body[w], features[w], base_risk[w], jitter[w], score_value[w], response[w]>>

\* The response of a call is the one computed from its own features and draws.
OwnInputsOnly ==
    \A w \in Workers :
        Succeeded(w) =>
            response[w] =
                ScoreResult(features[w], ScoreValue(BaseRisk(features[w]), jitter[w]),
                            response[w].timestamp, response[w].latency_ms)

\* A step changes the call of one worker and of no other.
NoInterference ==
    \E w \in Workers : \A v \in Workers \ {w} : Call(v)' = Call(v)

C6_PegAtrIgnored ==
    \A w, v \in Workers :
        (/\ Succeeded(w)
         /\ Succeeded(v)
         /\ body[w].ticker = body[v].ticker
         /\ body[w].rsi = body[v].rsi
         /\ body[w].pe = body[v].pe
         /\ body[w].sentiment = body[v].sentiment
         /\ jitter[w] = jitter[v]
         /\ response[w].latency_ms = response[v].latency_ms) =>
            /\ response[w].ticker = response[v].ticker
            /\ response[w].risk_score = response[v].risk_score
            /\ response[w].latency_ms = response[v].latency_ms
            /\ response[w].model_version = response[v].model_version

\* Two answered requests that differ in peg and in atr and in nothing else, with
\* the same draws and the same risk_score.
C6_Witness ==
    \E w, v \in Workers :
        /\ Succeeded(w)
        /\ Succeeded(v)
        /\ features[w].peg # features[v].peg
        /\ features[w].atr # features[v].atr
        /\ body[w].rsi = Num(80, 1)
        /\ body[v].rsi = Num(80, 1)
        /\ body[w].sentiment = body[v].sentiment
        /\ jitter[w] = jitter[v]
        /\ response[w].latency_ms = response[v].latency_ms
        /\ response[w].risk_score = response[v].risk_score

====
